---- MODULE Spec2Model ----
(***************************************************************************)
(* Optical-disc navigation of libavformat: the DVD protocol                *)
(* (src/libavformat/dvd.c) and the Blu-ray demuxer                         *)
(* (src/libavformat/bluraydec.c) as one state machine.  A behaviour is     *)
(* about one stream: Init draws the disc, the options and the protocol,    *)
(* then open, read and close act on it.                                    *)
(***************************************************************************)
EXTENDS Integers, Sequences, FiniteSets, TLC

(***************************************************************************)
(* Bounds of the model.                                                    *)
(***************************************************************************)
MaxCells == 3
MaxCellLen == 2
MaxAngle == 2
MaxBlocks == 3
MaxTitles == 2
MaxDur == 2

(***************************************************************************)
(* Program constants.  The libdvdread values (ifo_types.h) are those of    *)
(* the 2-bit fields block_mode and block_type of cell_playback_t.          *)
(***************************************************************************)
DVD_SECTOR_SIZE == 2048
BLOCK_TYPE_ANGLE_BLOCK == 1
BLOCK_MODE_LAST_CELL == 3
EIO == -5
ENOMEM == -12
EINVAL == -22
AVERROR_DEMUXER_NOT_FOUND == -1296385272
AVERROR_EOF == -541478725
EFAULT == -14
BLOCK_SIZE == 2048
SEEK_SET == 0
SEEK_CUR == 1
SEEK_END == 2
AVSEEK_SIZE == 65536

Min(a, b) == IF a < b THEN a ELSE b

(***************************************************************************)
(* The disc: cells, program chains, title sets, the title table.           *)
(***************************************************************************)
\* cell_playback_t of the four kinds of cell a disc holds: outside a block,
\* first, inner and last member of an angle block.
CellOf(kind, first, last) ==
    [block_mode   |-> CASE kind = "N" -> 0 [] kind = "F" -> 1
                         [] kind = "M" -> 2 [] OTHER -> 3,
     block_type   |-> IF kind = "N" THEN 0 ELSE BLOCK_TYPE_ANGLE_BLOCK,
     first_sector |-> first,
     last_sector  |-> last]

Kinds == {"N", "F", "M", "L"}

\* An angle block is a first cell, inner cells and a last cell, in a row.
WellFormed(s) ==
    \A i \in 1..Len(s) :
        /\ s[i] = "F" => (i < Len(s) /\ s[i + 1] \in {"M", "L"})
        /\ s[i] = "M" => (i > 1 /\ s[i - 1] \in {"F", "M"}
                          /\ i < Len(s) /\ s[i + 1] \in {"M", "L"})
        /\ s[i] = "L" => (i > 1 /\ s[i - 1] \in {"F", "M"})

Shapes == {s \in UNION {[1..n -> Kinds] : n \in 1..MaxCells} : WellFormed(s)}

RECURSIVE SumTo(_, _)
SumTo(lens, i) == IF i = 0 THEN 0 ELSE lens[i] + SumTo(lens, i - 1)

\* The cells of a chain laid out back to back from sector 0.
CellsOf(s, lens) ==
    [i \in 1..Len(s) |->
        CellOf(s[i], SumTo(lens, i - 1), SumTo(lens, i) - 1)]

\* The cells are MaxCellLen sectors long, but for at most one cell of a
\* chain, which is one sector long.
LensOf(n) == {[i \in 1..n |-> IF i = short THEN 1 ELSE MaxCellLen] : short \in 0..n}

Chains ==
    UNION {{CellsOf(s, lens) : lens \in LensOf(Len(s))} : s \in Shapes}

\* Cell numbers (1-based, as program_map holds them) a program starts on:
\* a cell outside a block or the first member of an angle block.
Entries(cells) == {i \in 1..Len(cells) : cells[i].block_mode \in {0, 1}}

RECURSIVE BlockLast(_, _)
\* 1-based number of the last member of the angle block that holds cell i.
BlockLast(cells, i) ==
    IF cells[i].block_mode = 3 \/ i = Len(cells) THEN i ELSE BlockLast(cells, i + 1)

RECURSIVE BlockFirst(_, _)
BlockFirst(cells, i) ==
    IF cells[i].block_mode = 1 \/ i = 1 THEN i ELSE BlockFirst(cells, i - 1)

InBlock(cells, i) == cells[i].block_mode # 0

\* tt_srpt's nr_of_angles of a title playing this chain: the width of its
\* angle blocks, 1 without any.
AnglesOf(cells) ==
    LET ws == {BlockLast(cells, i) - i + 1 : i \in {j \in 1..Len(cells) : cells[j].block_mode = 1}}
    IN IF ws = {} THEN 1 ELSE CHOOSE w \in ws : \A x \in ws : x <= w

\* dvd_time_t holds binary-coded decimals.
Time(sec) == [hour |-> 0, minute |-> 0, second |-> sec]

Pgc(time, entry, cells) ==
    [playback_time |-> time,
     program_map   |-> <<entry>>,
     nr_of_cells   |-> Len(cells),
     cell_playback |-> cells]

NullPgc == Pgc(Time(0), 0, <<>>)

\* Discs of one title set and one title, for every chain and entry cell.
ChainDiscs ==
    {[nr_of_vtss |-> 1,
      title      |-> <<[title_set_nr |-> 1, vts_ttn |-> 1, nr_of_angles |-> AnglesOf(c.cells)]>>,
      vts        |-> <<[title    |-> <<[pgcn |-> 1, pgn |-> 1]>>,
                        pgci_srp |-> <<Pgc(Time(1), c.entry, c.cells)>>]>>]
     : c \in UNION {{[cells |-> ch, entry |-> e] : e \in Entries(ch)} : ch \in Chains}}

\* Discs of two title sets.  Each title names its title set and its track
\* there (vts_ttn, counted from 1); at most one title of a table names a
\* track other than 1, from 0 to MaxTitles.  Every track of a title set
\* plays a chain of one cell of one sector whose playing time is the set's.
TitleEntry(set_nr, ttn) ==
    [title_set_nr |-> set_nr, vts_ttn |-> ttn, nr_of_angles |-> 1]

TitleTables ==
    UNION {{[i \in 1..n |-> TitleEntry(sets[i], IF i = odd THEN ttn ELSE 1)]
            : sets \in [1..n -> 1..2], odd \in 1..n, ttn \in 0..MaxTitles}
           : n \in 0..MaxTitles}

\* Playing times of a title set, as BCD seconds: 0x09 and 0x10.
BcdSecs == {9, 16}

VtsOf(tracks, sec) ==
    [title    |-> [k \in 1..tracks |-> [pgcn |-> k, pgn |-> 1]],
     pgci_srp |-> [k \in 1..tracks |-> Pgc(Time(sec), 1, <<CellOf("N", 0, 0)>>)]]

TitleDiscs ==
    {[nr_of_vtss |-> 2,
      title      |-> tt,
      vts        |-> <<VtsOf(tc, s1), VtsOf(tc, s2)>>]
     : tt \in TitleTables, tc \in 1..2, s1 \in BcdSecs, s2 \in BcdSecs}

(***************************************************************************)
(* What undefined behaviour yields.  A read outside a table, or of a       *)
(* variable never assigned, gives any value; the process may also stop.    *)
(* An action draws one g of Garbage and every such read of it takes its    *)
(* value from g.                                                           *)
(***************************************************************************)
Garbage == [crash : BOOLEAN, int : -1..MaxTitles]

\* The g of a call that has no undefined behaviour: it is never read.
NoGarbage == [crash |-> FALSE, int |-> 0]

GarbageCell(g) == CellOf(IF g.int % 2 = 0 THEN "N" ELSE "F", 0, g.int + 1)
GarbagePgc(g) == Pgc(Time(0), 1, <<GarbageCell(g)>>)
GarbageMs(g) == (g.int + 1) * 10000
GarbageTitle(g) == [title_set_nr |-> 1, vts_ttn |-> g.int, nr_of_angles |-> 1]

(***************************************************************************)
(* dvd.c: the pure parts.                                                  *)
(***************************************************************************)
bcd2int(bcd) == ((bcd \div 16) % 16) * 10 + (bcd % 16)

\* The title set's track table holds the title's track (vts_ttn is 1-based).
TrackInBounds(vts_ifo, e) == e.vts_ttn \in 1..Len(vts_ifo.title)

ff_dvd_get_title_set_length(vts_ifo, e) ==
    LET pgc_number    == vts_ifo.title[e.vts_ttn].pgcn
        playback_time == vts_ifo.pgci_srp[pgc_number].playback_time
    IN (bcd2int(playback_time.hour) * 3600
        + bcd2int(playback_time.minute) * 60
        + bcd2int(playback_time.second)) * 1000

\* cell_playback[i], i counted from 0 as the code does.
CellAt(pgc, i, g) ==
    IF i \in 0..(pgc.nr_of_cells - 1) THEN pgc.cell_playback[i + 1] ELSE GarbageCell(g)

IsAngleCell(cell) == cell.block_type = BLOCK_TYPE_ANGLE_BLOCK

\* The entry cell of the program, moved by the angle inside an angle block.
EntryCell(pgc, pgn, angle_nr, g) ==
    LET cell == pgc.program_map[pgn] - 1
    IN IF IsAngleCell(CellAt(pgc, cell, g)) THEN cell + angle_nr ELSE cell

\* ctx after ff_dvd_set_program_chain_info(ctx, title_nr, 0); e is the
\* title's entry of tt_srpt and vts_ifo the title set opened for it.
ff_dvd_set_program_chain_info(c, vts_ifo, e, g) ==
    LET inb  == TrackInBounds(vts_ifo, e)
        pgc  == IF inb THEN vts_ifo.pgci_srp[vts_ifo.title[e.vts_ttn].pgcn]
                ELSE GarbagePgc(g)
        pgn  == IF inb THEN vts_ifo.title[e.vts_ttn].pgn ELSE 1
        cur  == EntryCell(pgc, pgn, c.angle_nr, g)
        cell == CellAt(pgc, cur, g)
    IN [c EXCEPT !.current_pgc    = pgc,
                 !.current_cell   = cur,
                 !.start_sector   = cell.first_sector,
                 !.current_sector = cell.first_sector,
                 !.end_sector     = cell.last_sector]

RECURSIVE FastForward(_, _)
\* The while loop of ff_dvd_get_next_cell, from next_cell on.
FastForward(pgc, next_cell) ==
    IF next_cell < pgc.nr_of_cells
       /\ pgc.cell_playback[next_cell + 1].block_type # BLOCK_MODE_LAST_CELL
    THEN FastForward(pgc, next_cell + 1)
    ELSE next_cell

\* A next-cell rule that passes over one cell; the linear visit rules it out.
NextCellAfter_Skip(pgc, last) ==
    IF last + 2 >= pgc.nr_of_cells THEN -1 ELSE last + 2

\* A next-cell rule that stays on the cell it is given.
NextCellAfter_Stay(pgc, last) ==
    IF last + 1 >= pgc.nr_of_cells THEN -1 ELSE last

\* The index ff_dvd_get_next_cell returns: -1 past the chain's last cell.
NextCellAfter(pgc, last) ==
    IF last + 1 >= pgc.nr_of_cells THEN -1 ELSE last + 1

\* ff_dvd_get_next_cell: what it returns and the current_cell it leaves.
ff_dvd_get_next_cell(c, g) ==
    LET angle == IsAngleCell(CellAt(c.current_pgc, c.current_cell, g))
    IN [next_cell    |-> NextCellAfter(c.current_pgc,
                             IF angle THEN FastForward(c.current_pgc, c.current_cell)
                             ELSE c.current_cell),
        current_cell |-> IF angle THEN c.current_cell + c.angle_nr
                         ELSE c.current_cell]

(***************************************************************************)
(* dvd_url_open.  The handles a stream holds are named as the code names   *)
(* them: dvd, vmg_ifo, vts_ifo, dvd_title_file.                            *)
(***************************************************************************)
\* What the library calls of one open give: the first of DVDOpen2, ifoOpen(0)
\* and DVDOpenFile to fail (if any), and for each title set what ifoOpen
\* gives: nothing ("null"), a handle with no vtsi_mat or vts_pgcit ("nomat"),
\* or a handle with its tables ("ok").
DvdFails == {"none", "DVDOpen2", "ifoOpen", "DVDOpenFile"}

IfoResults(d) ==
    {r \in [1..d.nr_of_vtss -> {"ok", "nomat", "null"}] :
        Cardinality({v \in 1..d.nr_of_vtss : r[v] # "ok"}) <= 1}

\* A title id test that lets the id equal to the number of titles through.
TitleIdInvalid_OffByOne(title_nr, num_titles) == title_nr > num_titles

\* line 182
TitleIdInvalid(title_nr, num_titles) == title_nr >= num_titles

\* lines 211-212 and 241-242
VtsTtnInvalid(vts_ttn, num_titles) == vts_ttn < 1 \/ vts_ttn > num_titles

\* line 227
DvdTakes(longest_title_length_ms, title_length_ms) ==
    longest_title_length_ms <= title_length_ms

\* The titles of title set vts_nr in index order: the inner loop.
TitlesOf(d, vts_nr) ==
    SelectSeq([i \in 1..Len(d.title) |-> i - 1],
              LAMBDA t : d.title[t + 1].title_set_nr = vts_nr)

RECURSIVE ScanOrder(_, _)
\* The titles in the order the two loops of lines 187-234 visit them.
ScanOrder(d, vts_nr) ==
    IF vts_nr > d.nr_of_vtss THEN <<>>
    ELSE TitlesOf(d, vts_nr) \o ScanOrder(d, vts_nr + 1)

\* One pass of the inner loop's body, lines 192-232.
ScanStep(d, ifo, g, acc, title_nr) ==
    LET e       == d.title[title_nr + 1]
        vts_ifo == d.vts[e.title_set_nr]
    IN IF acc.ret # 0 THEN acc
       ELSE IF ifo[e.title_set_nr] = "null" THEN [acc EXCEPT !.ret = ENOMEM]
       ELSE IF ifo[e.title_set_nr] = "nomat" THEN acc
       ELSE IF VtsTtnInvalid(e.vts_ttn, Len(d.title)) THEN acc
       ELSE LET inb == TrackInBounds(vts_ifo, e)
                title_length_ms ==
                    IF inb THEN ff_dvd_get_title_set_length(vts_ifo, e)
                    ELSE GarbageMs(g)
                takes == DvdTakes(acc.longest_title_length_ms, title_length_ms)
            IN [ret |-> 0,
                ub  |-> acc.ub \/ ~inb,
                longest_title_nr |->
                    IF takes THEN title_nr ELSE acc.longest_title_nr,
                longest_title_length_ms |->
                    IF takes THEN title_length_ms ELSE acc.longest_title_length_ms,
                measured |->
                    Append(acc.measured, [title_nr |-> title_nr, ms |-> title_length_ms])]

RECURSIVE ScanFrom(_, _, _, _, _)
ScanFrom(d, ifo, g, acc, order) ==
    IF order = <<>> THEN acc
    ELSE ScanFrom(d, ifo, g, ScanStep(d, ifo, g, acc, Head(order)), Tail(order))

\* Lines 147-148 and 187-234: longest_title_nr is declared without a value.
Scan(d, ifo, g) ==
    ScanFrom(d, ifo, g,
             [ret |-> 0, ub |-> FALSE, longest_title_nr |-> g.int,
              longest_title_length_ms |-> 0, measured |-> <<>>],
             ScanOrder(d, 1))

\* tt_srpt->title[title_nr]
TitleAt(d, title_nr, g) ==
    IF title_nr \in 0..(Len(d.title) - 1) THEN d.title[title_nr + 1]
    ELSE GarbageTitle(g)

\* line 251: the angle is compared and the mismatch logged; TRUE when logged.
AngleLogged(angle_nr, nr_of_angles) == angle_nr > 0 /\ angle_nr >= nr_of_angles

OpenResult(ret, c, held, ub, measured, chosen, logged) ==
    [ret |-> ret, ctx |-> c, held |-> held, ub |-> ub,
     measured |-> measured, chosen |-> chosen, logged |-> logged]

\* chosen: <<>> until line 236-238 has run, then <<ctx->title_nr>>.
\* The part of dvd_url_open after the scan, lines 236-275.
OpenSelected(d, c, in, sc) ==
    LET title_nr == IF c.title_nr < 0 THEN sc.longest_title_nr ELSE c.title_nr
        c1       == [c EXCEPT !.title_nr = title_nr]
        e        == TitleAt(d, title_nr, in.g)
        ub1      == \/ sc.ub
                    \/ (c.title_nr < 0 /\ sc.measured = <<>>)
                    \/ title_nr \notin 0..(Len(d.title) - 1)
        logged   == AngleLogged(c.angle_nr, e.nr_of_angles)
        vts_ok   == e.title_set_nr \in 1..d.nr_of_vtss
        vts_ifo  == d.vts[e.title_set_nr]
        c2       == ff_dvd_set_program_chain_info(c1, vts_ifo, e, in.g)
        ub2      == \/ ub1
                    \/ ~TrackInBounds(vts_ifo, e)
                    \/ c2.current_cell \notin 0..(c2.current_pgc.nr_of_cells - 1)
    IN IF VtsTtnInvalid(e.vts_ttn, Len(d.title))
       THEN OpenResult(EIO, c1, {"dvd"}, ub1, sc.measured, <<title_nr>>, FALSE)
       ELSE IF ~vts_ok \/ in.ifo[e.title_set_nr] = "null"
       THEN OpenResult(ENOMEM, c1, {"dvd", "vmg_ifo"}, ub1, sc.measured, <<title_nr>>, logged)
       ELSE IF in.fail = "DVDOpenFile"
       THEN OpenResult(EIO, c1, {"dvd", "vmg_ifo", "vts_ifo"}, ub1, sc.measured,
                       <<title_nr>>, logged)
       ELSE OpenResult(0, c2, {"dvd", "vmg_ifo", "vts_ifo", "dvd_title_file"}, ub2,
                       sc.measured, <<title_nr>>, logged)

dvd_url_open(d, c, in) ==
    IF in.fail = "DVDOpen2"
    THEN OpenResult(EIO, c, {}, FALSE, <<>>, <<>>, FALSE)
    ELSE IF in.fail = "ifoOpen"
    THEN OpenResult(EIO, c, {"dvd"}, FALSE, <<>>, <<>>, FALSE)
    ELSE IF TitleIdInvalid(c.title_nr, Len(d.title))
    THEN OpenResult(EINVAL, c, {"dvd", "vmg_ifo"}, FALSE, <<>>, <<>>, FALSE)
    ELSE LET sc == Scan(d, in.ifo, in.g)
         IN IF sc.ret # 0
            THEN OpenResult(sc.ret, c, {"dvd", "vmg_ifo"}, sc.ub, sc.measured,
                            <<>>, FALSE)
            ELSE OpenSelected(d, c, in, sc)

\* ff_dvd_set_program_chain_info reads vts_pgcit of the title set opened at
\* line 259: the process stops when ifoOpen gave a handle without it.
OpenStops(d, c, in) ==
    LET r == dvd_url_open(d, c, in)
    IN \/ r.ub /\ in.g.crash
       \/ r.ret = 0 /\ in.ifo[TitleAt(d, r.ctx.title_nr, in.g).title_set_nr] = "nomat"

(***************************************************************************)
(* dvd_url_read and dvd_url_close.                                         *)
(***************************************************************************)
Max(a, b) == IF a > b THEN a ELSE b

\* The title set's VOBs hold the sectors of the chain's cells.
VobBlocks(pgc) ==
    IF pgc.nr_of_cells = 0 THEN 0
    ELSE pgc.cell_playback[pgc.nr_of_cells].last_sector + 1

\* DVDReadBlocks(file, lba, num_blocks): -1 on an error, else the blocks
\* read: all those asked for that the file holds, or a single one.
ReadOutcomes == {"error", "short", "full"}

DVDReadBlocks(pgc, lba, num_blocks, out) ==
    LET full == Min(num_blocks, Max(0, VobBlocks(pgc) - lba))
    IN CASE out = "error" -> -1
         [] out = "short" -> Min(1, full)
         [] OTHER         -> full

\* line 282
NumBlocks(size) == size \div DVD_SECTOR_SIZE

\* line 284
AtUnitEnd(c) == c.current_sector >= c.end_sector

\* lines 290-293
MoveTo(c, next_cell) ==
    LET cell == c.current_pgc.cell_playback[next_cell + 1]
    IN [c EXCEPT !.current_cell   = next_cell,
                 !.start_sector   = cell.first_sector,
                 !.end_sector     = cell.last_sector,
                 !.current_sector = cell.first_sector]

\* A test that lets a read of no block through as data.
ReadFailed_Negative(blocks_got) == blocks_got < 0

\* line 298
ReadFailed(blocks_got) == blocks_got <= 0

NoIo == [issued |-> FALSE, lba |-> 0, blocks |-> 0, got |-> 0]

dvd_url_read(c, size, g, out) ==
    LET num_blocks == NumBlocks(size)
        turn == AtUnitEnd(c)
        nx   == ff_dvd_get_next_cell(c, g)
        ub   == turn /\ c.current_cell \notin 0..(c.current_pgc.nr_of_cells - 1)
        c1   == IF turn THEN MoveTo(c, nx.next_cell) ELSE c
        got  == DVDReadBlocks(c1.current_pgc, c1.current_sector, num_blocks, out)
        io1  == [issued |-> TRUE, lba |-> c1.current_sector,
                 blocks |-> num_blocks, got |-> got]
    IN IF turn /\ nx.next_cell < 0
       THEN [ret |-> AVERROR_EOF, ctx |-> [c EXCEPT !.current_cell = nx.current_cell],
             io |-> NoIo, moved |-> FALSE, ub |-> ub]
       ELSE IF ReadFailed(got)
       THEN [ret |-> EIO, ctx |-> c1, io |-> io1, moved |-> turn, ub |-> ub]
       ELSE [ret |-> got * DVD_SECTOR_SIZE,
             ctx |-> [c1 EXCEPT !.current_sector = c1.current_sector + got],
             io |-> io1, moved |-> turn, ub |-> ub]

\* The reads so far, after one more read has returned r: a negative return
\* is EOF or an error (lines 287, 301), a positive one is data (line 304).
ReadHistory(h, r) ==
    IF r.ret <= 0 \/ h = "stopped" THEN "stopped"
    ELSE IF h = "full" /\ r.io.got = r.io.blocks THEN "full"
    ELSE "partial"

\* lines 160, 170, 259, 265: the handles in the order a successful
\* dvd_url_open acquires them.
dvd_url_open_acquires == <<"dvd", "vmg_ifo", "vts_ifo", "dvd_title_file">>

\* lines 133-136: the handles in the order dvd_url_close releases them.
dvd_url_close == <<"vts_ifo", "vmg_ifo", "dvd_title_file", "dvd">>

(***************************************************************************)
(* bluraydec.c: bluray_read_header.  Its resources: mpegts_ctx, bd, info,  *)
(* bd_streams, buffer, pb.                                                 *)
(***************************************************************************)
\* Discs: the titles bd_get_titles lists, each with the duration
\* bd_get_title_info reports, and the main title (-1: none declared).  The
\* list holds only titles of min_title_length (180 s at least) or longer, so
\* every duration is positive; the unit here is that shortest length.
BdDiscs ==
    UNION {{[titles        |-> du,
             main_title    |-> m,
             chapter_count |-> ch,
             clip_count    |-> cl]
            : du \in [1..n -> 1..MaxDur], m \in -1..(n - 1),
              ch \in 0..1, cl \in 0..1}
           : n \in 0..MaxTitles}

\* The library call of one open that fails, if any.
BdFails ==
    {"none", "avformat_alloc_context", "av_find_input_format", "bd_open_stream",
     "bd_select_title", "bd_select_playlist", "avpriv_new_chapter",
     "av_malloc_array", "av_malloc", "avio_alloc_context", "avformat_open_input",
     "av_new_program", "avformat_new_stream"}

\* line 189
BdTakes(pls_max_duration, duration) == pls_max_duration < duration

RECURSIVE BdScan(_, _, _)
\* lines 139-140 and 179-195, from title i on (info->idx is i).
BdScan(titles, i, acc) ==
    IF i >= Len(titles) THEN acc
    ELSE BdScan(titles, i + 1,
                IF BdTakes(acc.pls_max_duration, titles[i + 1])
                THEN [longest_title |-> i, pls_max_duration |-> titles[i + 1],
                      assigned |-> TRUE]
                ELSE acc)

\* A selection that prefers the longest title to the main title.
BdSelect_Longest(title, main_title, longest_title) ==
    IF title < 0 THEN longest_title ELSE title

\* lines 198-205
BdSelect(title, main_title, longest_title) ==
    IF title < 0
    THEN IF main_title >= 0 THEN main_title ELSE longest_title
    ELSE title

\* bd_select_title(bd, title) > 0: libbluray refuses an index that is not
\* one of the title list.
bd_select_title(num_title_idx, title, fail) ==
    title \in 0..(num_title_idx - 1) /\ fail # "bd_select_title"

BdResult(ret, title, held, streams, ub, chosen, info_freed) ==
    [ret |-> ret, title |-> title, held |-> held, bd_streams |-> streams,
     ub |-> ub, chosen |-> chosen, info_freed |-> info_freed]

\* Lines 213-319, after the title is selected.  bd_streams is "unassigned",
\* "null" or "allocated" when the end label frees it.
BdOpenTitle(d, title, fail, ub) ==
    LET base    == {"mpegts_ctx", "bd"}
        streams == IF d.clip_count > 0 THEN "allocated" ELSE "unassigned"
        AtEnd(ret, held, st) ==
            BdResult(ret, title, held, st, ub \/ st = "unassigned", <<title>>, 1)
    IN IF fail = "bd_select_playlist"
       THEN BdResult(EIO, title, base \cup {"info"}, "unassigned", ub, <<title>>, 0)
       ELSE IF fail = "avpriv_new_chapter" /\ d.chapter_count > 0
       THEN AtEnd(ENOMEM, base, "unassigned")
       ELSE IF fail = "av_malloc_array" /\ d.clip_count > 0
       THEN AtEnd(ENOMEM, base, "null")
       ELSE IF fail = "av_malloc"
       THEN AtEnd(ENOMEM, base, streams)
       ELSE IF fail = "avio_alloc_context"
       THEN AtEnd(ENOMEM, base, streams)
       ELSE IF fail = "avformat_open_input"
       THEN AtEnd(EIO, {"bd", "buffer", "pb"}, streams)
       ELSE IF fail \in {"av_new_program", "avformat_new_stream"}
       THEN AtEnd(ENOMEM, base \cup {"buffer", "pb"}, streams)
       ELSE AtEnd(0, base \cup {"buffer", "pb"}, streams)

bluray_read_header(d, title, fail, g) ==
    LET num_title_idx == Len(d.titles)
        sc == BdScan(d.titles, 0,
                     [longest_title |-> g.int, pls_max_duration |-> 0,
                      assigned |-> FALSE])
        sel == BdSelect(title, d.main_title, sc.longest_title)
        ub  == title < 0 /\ d.main_title < 0 /\ ~sc.assigned
    IN IF fail = "avformat_alloc_context"
       THEN BdResult(ENOMEM, title, {}, "unassigned", FALSE, <<>>, 0)
       ELSE IF fail = "av_find_input_format"
       THEN BdResult(AVERROR_DEMUXER_NOT_FOUND, title, {}, "unassigned", FALSE, <<>>, 0)
       ELSE IF fail = "bd_open_stream" \/ num_title_idx < 1
       THEN BdResult(EIO, title, {"mpegts_ctx", "bd"}, "unassigned", FALSE, <<>>, 0)
       ELSE IF ~bd_select_title(num_title_idx, sel, fail)
       THEN BdResult(EIO, sel, {"mpegts_ctx", "bd"}, "unassigned", ub, <<>>, 0)
       ELSE BdOpenTitle(d, sel, fail, ub)

(***************************************************************************)
(* bluraydec.c: the stream bridge the embedded demuxer reads through.  A   *)
(* function's result is what it returns (ret) and the library calls it     *)
(* made (calls); what the library returns is an input (lib).               *)
(***************************************************************************)
\* opaque: no context ("null_ctx"), a context without disc handle
\* ("null_bd"), or a context with its disc handle ("open").
Handles == {"null_ctx", "null_bd", "open"}

\* A whence test that knows SEEK_SET alone.
SeekWhence_SetOnly(whence) == whence = SEEK_SET

\* lines 94-96
SeekWhence(whence) == whence \in {SEEK_SET, SEEK_CUR, SEEK_END}

bluray_seek_bd(handle, offset, whence, lib) ==
    IF handle # "open"
    THEN [ret |-> EFAULT, calls |-> <<>>]
    ELSE IF SeekWhence(whence)
    THEN [ret |-> lib.bd_seek, calls |-> << <<"bd_seek", offset>> >>]
    ELSE IF whence = AVSEEK_SIZE
    THEN [ret |-> lib.bd_get_title_size, calls |-> << <<"bd_get_title_size">> >>]
    ELSE [ret |-> EINVAL, calls |-> <<>>]

\* A read that reports a failure of the library as the end of the stream.
bluray_read_bd_packet_EofOnError(handle, buf_size, len) ==
    IF handle # "open"
    THEN [ret |-> EFAULT, calls |-> <<>>]
    ELSE [ret |-> IF len <= 0 THEN AVERROR_EOF ELSE len,
          calls |-> << <<"bd_read", buf_size>> >>]

\* len is what bd_read returns: the bytes read, 0 at the end, -1 on an error.
bluray_read_bd_packet(handle, buf_size, len) ==
    IF handle # "open"
    THEN [ret |-> EFAULT, calls |-> <<>>]
    ELSE [ret |-> IF len = 0 THEN AVERROR_EOF ELSE len,
          calls |-> << <<"bd_read", buf_size>> >>]

(***************************************************************************)
(* bluraydec.c: the elementary streams bluray_read_header exposes.  A clip *)
(* is its three descriptor arrays, a descriptor a pid and a language; the  *)
(* streams of the transport demuxer are given by their ids.                *)
(***************************************************************************)
\* uint16_t pid: the conversion of the int st->id at the call of line 309.
Uint16(id) == id % 65536

\* A lookup that returns the last descriptor of the pid, 0 for none.
bluray_find_stream_info_by_pid_Last(bd_streams, bd_streams_count, pid) ==
    LET hits == {i \in 1..bd_streams_count : bd_streams[i].pid = pid}
    IN IF hits = {} THEN 0 ELSE CHOOSE i \in hits : \A j \in hits : j <= i

\* lines 117-128: the position in bd_streams (from 1) of the descriptor
\* returned, 0 for NULL.
bluray_find_stream_info_by_pid(bd_streams, bd_streams_count, pid) ==
    LET hits == {i \in 1..bd_streams_count : bd_streams[i].pid = pid}
    IN IF hits = {} THEN 0 ELSE CHOOSE i \in hits : \A j \in hits : i <= j

\* lines 237-260: the lookup array, filled from clip 0 when there is one.
\* With no clip the array is not assigned and its count is 0.
BdStreams(clips) ==
    IF Len(clips) > 0
    THEN clips[1].audio_streams \o clips[1].sec_audio_streams \o clips[1].pg_streams
    ELSE <<>>

\* lines 296-314: one exposed stream per stream of the transport demuxer,
\* with its id and its language tag ("" when the tag is not set).
ExposedStreams(clips, ids) ==
    LET bd_streams == BdStreams(clips)
    IN [i \in 1..Len(ids) |->
          LET at == bluray_find_stream_info_by_pid(bd_streams, Len(bd_streams),
                                                   Uint16(ids[i]))
          IN [id |-> ids[i], tagged |-> at # 0,
              language |-> IF at # 0 THEN bd_streams[at].lang ELSE ""]]

(***************************************************************************)
(* bluraydec.c: the sector source libbluray reads the disc image through.  *)
(* An int64_t is kept as two limbs, hi * Limb + lo with lo in 0..Limb - 1, *)
(* since its values exceed the integers of the model; an int is an         *)
(* integer.                                                                *)
(***************************************************************************)
Limb == 2^20

\* The limbs of hi an int holds: 2^32 = IntLimbs * Limb.
IntLimbs == 2^12

\* The largest int.
INT_MAX == (IntLimbs \div 2 - 1) * Limb + (Limb - 1)

\* line 30: the int64_t product LBA * BLOCK_SIZE, for LBA >= 0.
LBA_TO_BYTES(LBA) ==
    [hi |-> LBA \div (Limb \div BLOCK_SIZE),
     lo |-> (LBA % (Limb \div BLOCK_SIZE)) * BLOCK_SIZE]

\* line 59: the conversion of an int64_t to int keeps the low 32 bits, the
\* highest of them as the sign.
ToInt(v) ==
    LET h == v.hi % IntLimbs
    IN (IF h >= IntLimbs \div 2 THEN h - IntLimbs ELSE h) * Limb + v.lo

\* lib.avio_seek is what avio_seek returns, lib.avio_read what avio_read
\* returns for the bytes asked of it.
bluray_read_blocks(lba, num_blocks, lib) ==
    LET offset        == LBA_TO_BYTES(lba)
        bytes_to_read == ToInt(LBA_TO_BYTES(num_blocks))
        seek          == <<"avio_seek", offset.hi, offset.lo>>
    IN IF lib.avio_seek >= 0
       THEN [ret   |-> IF lib.avio_read >= 0 THEN lib.avio_read \div BLOCK_SIZE
                       ELSE -1,
             calls |-> <<seek, <<"avio_read", bytes_to_read>> >>]
       ELSE [ret |-> -1, calls |-> <<seek>>]

(***************************************************************************)
(* dolby_vision_configuration.c.  dv is the pointer given: null or not,    *)
(* and the dv_profile (a uint8_t) of the configuration it points to.  The  *)
(* string returned is "NULL" for the null pointer.                         *)
(***************************************************************************)
av_dolby_vision_get_codec_type_str(dv) ==
    IF dv.null THEN "NULL"
    ELSE CASE dv.dv_profile \in {4, 5, 7} -> "dvhe"
           [] dv.dv_profile = 8 -> "hev1"
           [] dv.dv_profile = 9 -> "avc3"
           [] OTHER -> "NULL"

(***************************************************************************)
(* The state machine.                                                      *)
(***************************************************************************)
VARIABLES
    proto,      \* "dvd" or "bluray": the stream this behaviour is about
    disc,       \* the disc read
    opt,        \* the options title and angle as given
    pc,         \* "init", "open", "failed", "closed", "crashed"
    ctx,        \* DvdProtocolContext
    bdctx,      \* BlurayDemuxContext: title
    held,       \* the handles and allocations held
    released,   \* the handles close released, in order
    op,         \* the last call: "none", "open", "read", "close"
    ret,        \* what it returned
    io,         \* the DVDReadBlocks call of the last read, if it issued one
    visited,    \* the cells the cursor was positioned on, in order
    ub,         \* some call so far had undefined behaviour
    measured,   \* the titles the scan of open measured, in scan order
    chosen,     \* <<title>> once open has settled the title (dvd.c line 238,
                \* bluraydec.c line 208 with the library taking it), else <<>>
    logged,     \* open logged "incorrect angle selected"
    bd_streams, \* bd_streams when the end label of bluray_read_header frees it
    info_freed, \* the times open freed the info of the selected title
    call,       \* the function last applied on its own, with its inputs
    result,     \* what it returned and the library calls it made
    history     \* the reads so far: "full" (each returned every block it asked
                \* for), "partial" (each returned data), "stopped" (one returned
                \* EOF or an error)

vars ==
    <<proto, disc, opt, pc, ctx, bdctx, held, released, op, ret, io, visited,
      ub, measured, chosen, logged, bd_streams, info_freed, call, result, history>>

\* The variables of an opened stream, which a function applied on its own
\* leaves alone.
streamvars ==
    <<proto, disc, opt, pc, ctx, bdctx, held, released, op, ret, io, visited,
      ub, measured, chosen, logged, bd_streams, info_freed, history>>

NoCall == [fn |-> "none"]
NoResult == [ret |-> 0, calls |-> <<>>]

DvdOptions(d) ==
    IF d \in ChainDiscs
    THEN [title : {-1}, angle : 0..MaxAngle]
    ELSE [title : -1..MaxTitles, angle : {0}]

Init ==
    /\ proto \in {"dvd", "bluray"}
    /\ \/ proto = "dvd" /\ disc \in ChainDiscs \cup TitleDiscs
          /\ opt \in DvdOptions(disc)
       \/ proto = "bluray" /\ disc \in BdDiscs
          /\ opt \in [title : -1..MaxTitles, angle : {0}]
    /\ pc = "init"
    /\ ctx = [title_nr |-> opt.title, angle_nr |-> opt.angle,
              current_pgc |-> NullPgc, current_cell |-> 0,
              start_sector |-> 0, current_sector |-> 0, end_sector |-> 0]
    /\ bdctx = [title |-> opt.title]
    /\ held = {}
    /\ released = <<>>
    /\ op = "none"
    /\ ret = 0
    /\ io = NoIo
    /\ visited = <<>>
    /\ ub = FALSE
    /\ measured = <<>>
    /\ chosen = <<>>
    /\ logged = FALSE
    /\ bd_streams = "unassigned"
    /\ info_freed = 0
    /\ history = "full"
    /\ call = NoCall
    /\ result = NoResult

DvdOpen ==
    /\ proto = "dvd" /\ pc = "init"
    /\ \E fail \in DvdFails, ifo \in IfoResults(disc) :
       \E g \in IF dvd_url_open(disc, ctx, [fail |-> fail, ifo |-> ifo, g |-> NoGarbage]).ub
                THEN Garbage ELSE {NoGarbage} :
        LET r == dvd_url_open(disc, ctx, [fail |-> fail, ifo |-> ifo, g |-> g])
        IN IF OpenStops(disc, ctx, [fail |-> fail, ifo |-> ifo, g |-> g])
           THEN /\ pc' = "crashed"
                /\ ub' = TRUE
                /\ UNCHANGED <<ctx, held, ret, measured, chosen, logged, visited>>
           ELSE /\ pc' = IF r.ret = 0 THEN "open" ELSE "failed"
                /\ ctx' = r.ctx
                /\ held' = r.held
                /\ ret' = r.ret
                /\ ub' = r.ub
                /\ measured' = r.measured
                /\ chosen' = r.chosen
                /\ logged' = r.logged
                /\ visited' = IF r.ret = 0 THEN <<r.ctx.current_cell>> ELSE <<>>
    /\ op' = "open"
    /\ UNCHANGED <<proto, disc, opt, bdctx, released, io, bd_streams, info_freed, history,
                   call, result>>

\* Requests of no sector, one sector, MaxBlocks sectors, and one that is
\* not a whole number of sectors.
ReadSizes ==
    {b * DVD_SECTOR_SIZE : b \in {0, 1, MaxBlocks}} \cup {DVD_SECTOR_SIZE + 1000}

\* current_cell grows without bound once it has left the chain: the model
\* follows it this far.
CellCap == MaxCells

DvdRead ==
    /\ proto = "dvd" /\ pc = "open"
    /\ ctx.current_cell <= CellCap
    /\ \E size \in ReadSizes, out \in ReadOutcomes :
       \E g \in IF dvd_url_read(ctx, size, NoGarbage, out).ub
                THEN Garbage ELSE {NoGarbage} :
        LET r == dvd_url_read(ctx, size, g, out)
        IN IF r.ub /\ g.crash
           THEN /\ pc' = "crashed"
                /\ ub' = TRUE
                /\ UNCHANGED <<ctx, ret, io, visited, history>>
           ELSE /\ pc' = "open"
                /\ ctx' = r.ctx
                /\ ret' = r.ret
                /\ io' = r.io
                /\ ub' = (ub \/ r.ub)
                /\ visited' = IF r.moved THEN Append(visited, r.ctx.current_cell)
                              ELSE visited
                /\ history' = ReadHistory(history, r)
    /\ op' = "read"
    /\ UNCHANGED <<proto, disc, opt, bdctx, held, released, measured, chosen,
                   logged, bd_streams, info_freed, call, result>>

DvdClose ==
    /\ proto = "dvd" /\ pc = "open"
    /\ pc' = "closed"
    /\ released' = dvd_url_close
    /\ held' = held \ {dvd_url_close[i] : i \in 1..Len(dvd_url_close)}
    /\ op' = "close"
    /\ ret' = 0
    /\ UNCHANGED <<proto, disc, opt, ctx, bdctx, io, visited, ub, measured,
                   chosen, logged, bd_streams, info_freed, history, call, result>>

BdOpen ==
    /\ proto = "bluray" /\ pc = "init"
    /\ \E fail \in BdFails :
       \E g \in IF bluray_read_header(disc, bdctx.title, fail, NoGarbage).ub
                THEN Garbage ELSE {NoGarbage} :
        LET r == bluray_read_header(disc, bdctx.title, fail, g)
        IN IF r.ub /\ g.crash
           THEN /\ pc' = "crashed"
                /\ ub' = TRUE
                /\ UNCHANGED <<bdctx, held, ret, chosen, bd_streams, info_freed>>
           ELSE /\ pc' = IF r.ret = 0 THEN "open" ELSE "failed"
                /\ bdctx' = [bdctx EXCEPT !.title = r.title]
                /\ held' = r.held
                /\ ret' = r.ret
                /\ ub' = r.ub
                /\ chosen' = r.chosen
                /\ bd_streams' = r.bd_streams
                /\ info_freed' = r.info_freed
    /\ op' = "open"
    /\ UNCHANGED <<proto, disc, opt, ctx, released, io, visited, measured, logged,
                   history, call, result>>

Next == DvdOpen \/ DvdRead \/ DvdClose \/ BdOpen

Spec == Init /\ [][Next]_vars

\* A consumer that keeps calling read: it never closes the stream, and a
\* read that can be made is made in the end.
ReadNext == DvdOpen \/ DvdRead

ReadSpec == Init /\ [][ReadNext]_vars /\ WF_vars(DvdRead)

(***************************************************************************)
(* The functions that are applied on their own: the callbacks of the       *)
(* stream bridge and of the sector source, which the libraries call with   *)
(* inputs of their choosing, the Dolby Vision helper and the exposure of   *)
(* the streams.  None of them keeps state between calls: a behaviour is    *)
(* one call, with its inputs in call and what it did in result.            *)
(***************************************************************************)
CallInit ==
    /\ proto = "none"
    /\ disc = [titles |-> <<>>, main_title |-> -1, chapter_count |-> 0,
               clip_count |-> 0]
    /\ opt = [title |-> -1, angle |-> 0]
    /\ pc = "init"
    /\ ctx = [title_nr |-> opt.title, angle_nr |-> opt.angle,
              current_pgc |-> NullPgc, current_cell |-> 0,
              start_sector |-> 0, current_sector |-> 0, end_sector |-> 0]
    /\ bdctx = [title |-> opt.title]
    /\ held = {}
    /\ released = <<>>
    /\ op = "none"
    /\ ret = 0
    /\ io = NoIo
    /\ visited = <<>>
    /\ ub = FALSE
    /\ measured = <<>>
    /\ chosen = <<>>
    /\ logged = FALSE
    /\ bd_streams = "unassigned"
    /\ info_freed = 0
    /\ history = "full"
    /\ call = NoCall
    /\ result = NoResult

\* The inputs of bluray_seek_bd: the whence values of avio, and two others.
Whences == {SEEK_SET, SEEK_CUR, SEEK_END, AVSEEK_SIZE, SEEK_END + 1, -1}
SeekOffsets == {0, 1, BLOCK_SIZE}
SeekLibs == [bd_seek : {0, BLOCK_SIZE}, bd_get_title_size : {0, 2 * BLOCK_SIZE}]

SeekBd ==
    /\ call = NoCall
    /\ \E handle \in Handles, offset \in SeekOffsets, whence \in Whences,
          lib \in SeekLibs :
        /\ call' = [fn |-> "bluray_seek_bd", handle |-> handle, offset |-> offset,
                    whence |-> whence, lib |-> lib]
        /\ result' = bluray_seek_bd(handle, offset, whence, lib)
    /\ UNCHANGED streamvars

\* The buffer sizes asked for, and what bd_read returns for one: an error,
\* the end, one byte, the whole buffer.
BufSizes == {1, BLOCK_SIZE}
BdReadResults(buf_size) == {-1, 0, 1, buf_size}

ReadBdPacket ==
    /\ call = NoCall
    /\ \E handle \in Handles, buf_size \in BufSizes :
       \E len \in BdReadResults(buf_size) :
        /\ call' = [fn |-> "bluray_read_bd_packet", handle |-> handle,
                    buf_size |-> buf_size, lib |-> [bd_read |-> len]]
        /\ result' = bluray_read_bd_packet(handle, buf_size, len)
    /\ UNCHANGED streamvars

\* Every value of the uint8_t dv_profile, and the null pointer.
DvConfigurations ==
    {[null |-> TRUE, dv_profile |-> 0]} \cup [null : {FALSE}, dv_profile : 0..255]

GetCodecTypeStr ==
    /\ call = NoCall
    /\ \E dv \in DvConfigurations :
        /\ call' = [fn |-> "av_dolby_vision_get_codec_type_str", dv |-> dv]
        /\ result' = [ret |-> av_dolby_vision_get_codec_type_str(dv), calls |-> <<>>]
    /\ UNCHANGED streamvars

\* The inputs of bluray_read_blocks: non-negative ints around the values
\* where the byte count leaves the range of an int.
BlockLbas == {0, 1, Limb \div BLOCK_SIZE, Limb, INT_MAX}
SourceCounts ==
    {0, 1, 2, Limb - 1, Limb, 2 * Limb - 1, 2 * Limb, 2 * Limb + 1, INT_MAX}

\* What avio_read returns when asked for size bytes: an error, nothing, or
\* up to size bytes.
AvioReadResults(size) ==
    {-1, 0} \cup (IF size > 0
                  THEN {1, size} \cup (IF size >= BLOCK_SIZE THEN {BLOCK_SIZE} ELSE {})
                  ELSE {})

ReadBlocks ==
    /\ call = NoCall
    /\ \E lba \in BlockLbas, num_blocks \in SourceCounts, avio_seek \in {-1, 0} :
       \E avio_read \in AvioReadResults(ToInt(LBA_TO_BYTES(num_blocks))) :
        LET lib == [avio_seek |-> avio_seek, avio_read |-> avio_read]
        IN /\ call' = [fn |-> "bluray_read_blocks", lba |-> lba,
                       num_blocks |-> num_blocks, lib |-> lib]
           /\ result' = bluray_read_blocks(lba, num_blocks, lib)
    /\ UNCHANGED streamvars

\* The descriptors a clip may hold and the ids of the transport streams:
\* pid 1 is on both sides, pid 2 on a descriptor only, id 3 on a stream only.
MaxDescs == 1
MaxStreams == 2
Descriptors == [pid : {1, 2}, lang : {"eng", "fra"}]
DescArrays == UNION {[1..n -> Descriptors] : n \in 0..MaxDescs}
Clips == [audio_streams : DescArrays, sec_audio_streams : DescArrays,
          pg_streams : DescArrays]

\* Clips after clip 0: one whose descriptors carry the pids with another
\* language, and one without descriptors.
LaterClips ==
    {[audio_streams     |-> <<[pid |-> 1, lang |-> "deu"]>>,
      sec_audio_streams |-> <<>>,
      pg_streams        |-> <<[pid |-> 3, lang |-> "deu"]>>],
     [audio_streams |-> <<>>, sec_audio_streams |-> <<>>, pg_streams |-> <<>>]}

ClipLists ==
    {<<>>} \cup {<<c>> : c \in Clips} \cup {<<c, l>> : c \in Clips, l \in LaterClips}

StreamIds == UNION {[1..n -> {1, 3}] : n \in 0..MaxStreams}

ExposeStreams ==
    /\ call = NoCall
    /\ \E clips \in ClipLists, ids \in StreamIds :
        /\ call' = [fn |-> "bluray_read_header", clips |-> clips, ids |-> ids]
        /\ result' = [ret |-> 0, calls |-> <<>>,
                      streams |-> ExposedStreams(clips, ids)]
    /\ UNCHANGED streamvars

CallNext ==
    SeekBd \/ ReadBdPacket \/ GetCodecTypeStr \/ ReadBlocks \/ ExposeStreams

CallSpec == CallInit /\ [][CallNext]_vars

(***************************************************************************)
(* Properties.                                                             *)
(***************************************************************************)
DvdOpened == proto = "dvd" /\ pc \in {"open", "closed"}

\* C1: a DVD read never returns data spanning two units: the sectors one
\* read returns all lie in the current cell, none past its end_sector, however
\* many sectors were asked for.
C1_ReadWithinUnit ==
    (proto = "dvd" /\ pc = "open" /\ op = "read" /\ io.issued /\ io.got > 0 /\ ~ub)
        => io.lba + io.got - 1 <= ctx.end_sector

\* C2: once a DVD read has returned EOF, every later read returns EOF,
\* issues no block read and leaves current_cell, start_sector, current_sector
\* and end_sector as they were.
C2_EofIsTerminal ==
    [][(proto = "dvd" /\ pc = "open" /\ op = "read" /\ ret = AVERROR_EOF
        /\ pc' = "open" /\ op' = "read" /\ ~ub')
       => /\ ret' = AVERROR_EOF
          /\ ~io'.issued
          /\ ctx'.current_cell = ctx.current_cell
          /\ ctx'.start_sector = ctx.start_sector
          /\ ctx'.current_sector = ctx.current_sector
          /\ ctx'.end_sector = ctx.end_sector]_vars

NoAngleCells(pgc) ==
    \A i \in 1..pgc.nr_of_cells : ~IsAngleCell(pgc.cell_playback[i])

\* C3: in a program chain without angle blocks the cells the cursor is
\* positioned on are, in order, the entry cell and each cell after it, one by
\* one and each once, and a read returns EOF only from the chain's last cell.
C3_LinearVisit ==
    (DvdOpened /\ NoAngleCells(ctx.current_pgc))
        => /\ visited = [i \in 1..Len(visited) |-> ctx.current_pgc.program_map[1] + i - 2]
           /\ ctx.current_cell = visited[Len(visited)]
           /\ (op = "read" /\ ret = AVERROR_EOF)
                  => ctx.current_cell = ctx.current_pgc.nr_of_cells - 1

\* A chain of MaxCells cells without angle blocks read from its first cell to
\* EOF.
C3_Witness ==
    /\ DvdOpened /\ NoAngleCells(ctx.current_pgc)
    /\ op = "read" /\ ret = AVERROR_EOF
    /\ visited = [i \in 1..MaxCells |-> i - 1]

\* C4: with an angle block of W members and an angle A < W, entry resolution
\* on the block's first member positions the cursor on member A, and the next
\* unit from a member of the block is the first cell after the block's last
\* member, or none when that member is the chain's final cell.
C4_AngleBlock ==
    LET pgc   == ctx.current_pgc
        cells == pgc.cell_playback
        cur   == ctx.current_cell + 1
        entry == pgc.program_map[1]
    IN (proto = "dvd" /\ pc = "open" /\ ~ub /\ cur \in 1..pgc.nr_of_cells
        /\ InBlock(cells, cur)
        /\ ctx.angle_nr <= BlockLast(cells, cur) - BlockFirst(cells, cur))
        => /\ (op = "open" /\ cells[entry].block_mode = 1)
                  => ctx.current_cell = entry - 1 + ctx.angle_nr
           /\ ff_dvd_get_next_cell(ctx, NoGarbage).next_cell
                  = NextCellAfter(pgc, BlockLast(cells, cur) - 1)

Longest(du) == {i \in 1..Len(du) : \A j \in 1..Len(du) : du[j] <= du[i]}
FirstOf(S) == CHOOSE i \in S : \A j \in S : i <= j
LastOf(S) == CHOOSE i \in S : \A j \in S : j <= i

BdAuto == proto = "bluray" /\ opt.title < 0 /\ disc.main_title < 0

\* C5: with no explicit title and no main title, open settles on a title of
\* the longest duration; among several the DVD path takes the one of highest
\* title index, the Blu-ray path the one of lowest.
C5_Original ==
    /\ (proto = "dvd" /\ opt.title < 0 /\ chosen # <<>>)
           => /\ measured # <<>>
              /\ chosen[1] =
                     LastOf({measured[i].title_nr :
                                i \in {j \in 1..Len(measured) :
                                          \A k \in 1..Len(measured) :
                                              measured[k].ms <= measured[j].ms}})
    /\ (BdAuto /\ chosen # <<>>)
           => chosen[1] = FirstOf(Longest(disc.titles)) - 1

\* C6: on the Blu-ray path, with no explicit title and a main title declared,
\* the title selected is the main title whatever the durations; an explicit
\* title is never replaced.
C6_MainTitle ==
    (proto = "bluray" /\ op = "open" /\ pc # "crashed")
        => /\ opt.title >= 0
                  => (bdctx.title = opt.title
                      /\ (chosen # <<>> => chosen = <<opt.title>>))
           /\ (opt.title < 0 /\ disc.main_title >= 0 /\ chosen # <<>>)
                  => (chosen = <<disc.main_title>>
                      /\ bdctx.title = disc.main_title)

\* A main title that is not the longest title is opened.
C6_Witness ==
    /\ proto = "bluray" /\ pc = "open" /\ opt.title < 0
    /\ disc.main_title >= 0
    /\ disc.main_title + 1 \notin Longest(disc.titles)
    /\ chosen = <<disc.main_title>>

NumTitles == IF proto = "dvd" THEN Len(disc.title) ELSE Len(disc.titles)

C8_TrackOutOfRange ==
    (proto = "dvd" /\ chosen # <<>> /\ chosen[1] \in 0..(Len(disc.title) - 1)
     /\ ~TrackInBounds(disc.vts[disc.title[chosen[1] + 1].title_set_nr],
                       disc.title[chosen[1] + 1]))
        => /\ pc = "failed"
           /\ \A i \in 1..Len(measured) : measured[i].title_nr # chosen[1]

\* C9: an angle number that is not below the number of angles of the title
\* selected makes open fail: the stream is not opened.
C9_AngleOutOfRange ==
    (proto = "dvd" /\ chosen # <<>> /\ chosen[1] \in 0..(Len(disc.title) - 1)
     /\ ctx.angle_nr >= disc.title[chosen[1] + 1].nr_of_angles)
        => pc \notin {"open", "closed"}

\* C10: when open has failed, DVD or Blu-ray, nothing it acquired is still
\* held.
C10_FailedOpenHoldsNothing ==
    pc = "failed" => held = {}

\* C11: after a successful DVD open and reads none of which returned EOF or
\* an error, start_sector <= current_sector <= end_sector, and a block read
\* is issued only at a sector before end_sector.
C11_CursorInUnit ==
    (proto = "dvd" /\ pc = "open" /\ history # "stopped" /\ ~ub)
        => /\ ctx.start_sector <= ctx.current_sector
           /\ (op = "read" /\ io.issued) => io.lba < ctx.end_sector
           /\ ctx.current_sector <= ctx.end_sector

C13_SeekByWhence ==
    call.fn = "bluray_seek_bd"
        => /\ (call.handle = "open" /\ call.whence \in {SEEK_SET, SEEK_CUR, SEEK_END})
                  => /\ result.calls = << <<"bd_seek", call.offset>> >>
                     /\ result.ret = call.lib.bd_seek
           /\ (call.handle = "open" /\ call.whence = AVSEEK_SIZE)
                  => /\ result.ret = call.lib.bd_get_title_size
                     /\ \A i \in 1..Len(result.calls) : result.calls[i][1] # "bd_seek"
           /\ (call.handle = "open"
               /\ call.whence \notin {SEEK_SET, SEEK_CUR, SEEK_END, AVSEEK_SIZE})
                  => /\ result.ret = EINVAL
                     /\ result.calls = <<>>
           /\ call.handle # "open"
                  => /\ result.ret < 0
                     /\ result.calls = <<>>

\* A seek relative to the current position, handed to bd_seek.
C13_Witness ==
    /\ call.fn = "bluray_seek_bd" /\ call.handle = "open"
    /\ call.whence = SEEK_CUR /\ call.offset = BLOCK_SIZE
    /\ result.calls = << <<"bd_seek", BLOCK_SIZE>> >>

\* C14: av_dolby_vision_get_codec_type_str returns "dvhe" for every profile
\* from 4 through 7, "hev1" for profile 8 and "avc3" for profile 9.
C14_CodecTypeStr ==
    (call.fn = "av_dolby_vision_get_codec_type_str" /\ ~call.dv.null)
        => /\ call.dv.dv_profile \in 4..7 => result.ret = "dvhe"
           /\ call.dv.dv_profile = 8 => result.ret = "hev1"
           /\ call.dv.dv_profile = 9 => result.ret = "avc3"

\* C15: a read of the stream bridge returns EOF exactly when the library
\* returns 0 bytes; a positive count and a negative error of the library are
\* returned as they are: a failed read is not EOF, and EOF is not a failure.
C15_EofOnlyAtEnd ==
    call.fn = "bluray_read_bd_packet"
        => /\ result.ret = AVERROR_EOF
                  <=> (call.handle = "open" /\ call.lib.bd_read = 0)
           /\ (call.handle = "open" /\ call.lib.bd_read # 0)
                  => result.ret = call.lib.bd_read

\* The library fails, and its error is what the read returns.
C15_Witness ==
    /\ call.fn = "bluray_read_bd_packet" /\ call.handle = "open"
    /\ call.lib.bd_read < 0
    /\ result.ret = call.lib.bd_read

\* C16: whenever the DVD cursor has been positioned on a cell of an angle
\* block, by the entry resolution of open or by a transition of read, with an
\* angle below the block's width, that cell is the block's member angle_nr.
C16_AngleUniform ==
    LET cells == ctx.current_pgc.cell_playback
        cur   == ctx.current_cell + 1
    IN (proto = "dvd" /\ pc = "open" /\ ~ub
        /\ visited # <<>> /\ ctx.current_cell = visited[Len(visited)]
        /\ cur \in 1..ctx.current_pgc.nr_of_cells
        /\ InBlock(cells, cur)
        /\ ctx.angle_nr <= BlockLast(cells, cur) - BlockFirst(cells, cur))
        => cur = BlockFirst(cells, cur) + ctx.angle_nr

\* C17: while every block read returns all the blocks asked for, the reads
\* of a DVD title deliver the sectors first_sector..last_sector of each cell
\* the cursor visits, each once and in increasing order: a block read starts
\* where the one before ended (at first_sector in a new cell) and ends at
\* last_sector or before, and the cursor leaves a cell, for the next one or
\* for EOF, only with last_sector delivered.
C17_EverySectorOnce ==
    [][(proto = "dvd" /\ pc = "open" /\ history = "full" /\ ~ub /\ ~logged
        /\ pc' = "open" /\ op' = "read" /\ ~ub'
        /\ (history' = "full" \/ ret' = AVERROR_EOF))
       => /\ (ret' = AVERROR_EOF \/ Len(visited') > Len(visited))
                 => ctx.current_sector = ctx.end_sector + 1
          /\ io'.issued
                 => /\ io'.lba = IF Len(visited') > Len(visited)
                                 THEN ctx'.start_sector ELSE ctx.current_sector
                    /\ io'.lba + io'.got - 1 <= ctx'.end_sector]_vars

\* C18: on a stream opened with a valid angle, a consumer that keeps
\* calling read receives EOF in the end unless a block read returns no block:
\* a read that returns data without a transition moves current_sector
\* forward, and a transition moves the cursor to a cell of higher index.
C18_ReadsReachEof ==
    /\ (proto = "dvd" /\ pc = "open" /\ ~logged /\ ~ub)
           ~> (op = "read" /\ (ret = AVERROR_EOF \/ (io.issued /\ io.got <= 0)))
    /\ [][(proto = "dvd" /\ pc = "open" /\ ~logged /\ ~ub
           /\ pc' = "open" /\ op' = "read" /\ ~ub')
          => /\ Len(visited') > Len(visited)
                    => ctx'.current_cell > ctx.current_cell
             /\ (Len(visited') = Len(visited) /\ ret' > 0)
                    => /\ ctx'.current_cell = ctx.current_cell
                       /\ ctx'.current_sector > ctx.current_sector]_vars

\* A title read from a cell before an angle block, through a transition into
\* the block, to EOF, with the second angle chosen.
C18_Witness ==
    /\ proto = "dvd" /\ pc = "open" /\ ~logged
    /\ op = "read" /\ ret = AVERROR_EOF
    /\ Len(visited) > 1 /\ ctx.angle_nr > 0

\* C19: a DVD stream closed after a successful open, at any point, has
\* released each of the four handles once, in the reverse of the order open
\* acquired them: title file, title-set info, VMG info, disc.
C19_ReverseRelease ==
    (proto = "dvd" /\ pc = "closed")
        => /\ Len(released) = Len(dvd_url_open_acquires)
           /\ \A i \in 1..Len(released) :
                  released[i] = dvd_url_open_acquires[Len(released) + 1 - i]
           /\ held = {}

\* C20: for non-negative lba and num_blocks the sector source seeks to
\* lba * 2048 and asks for num_blocks * 2048 bytes, neither product wrapped or
\* truncated; it returns the whole blocks read, and a negative number when the
\* seek or the read fails.
C20_ExactByteCounts ==
    call.fn = "bluray_read_blocks"
        => /\ result.calls[1][1] = "avio_seek"
           /\ result.calls[1][3] % BLOCK_SIZE = 0
           /\ result.calls[1][2] * (Limb \div BLOCK_SIZE)
                  + result.calls[1][3] \div BLOCK_SIZE = call.lba
           /\ call.lib.avio_seek >= 0
                  => /\ Len(result.calls) = 2
                     /\ result.calls[2][1] = "avio_read"
                     /\ result.calls[2][2] % BLOCK_SIZE = 0
                     /\ result.calls[2][2] \div BLOCK_SIZE = call.num_blocks
           /\ (call.lib.avio_seek < 0 \/ call.lib.avio_read < 0) => result.ret < 0
           /\ (call.lib.avio_seek >= 0 /\ call.lib.avio_read >= 0)
                  => result.ret = call.lib.avio_read \div BLOCK_SIZE

\* C21: after a successful Blu-ray open an exposed stream carries a language
\* tag exactly when its id is the pid of a descriptor of clip 0 of the
\* selected title, the audio, secondary audio and subtitle descriptors taken in
\* that order; the tag is the language of the first such descriptor, and
\* descriptors of later clips tag nothing.
C21_LanguageFromFirstClip ==
    call.fn = "bluray_read_header"
        => /\ Len(result.streams) = Len(call.ids)
           /\ \A i \in 1..Len(call.ids) :
                LET st    == result.streams[i]
                    descs == IF call.clips = <<>> THEN <<>>
                             ELSE call.clips[1].audio_streams
                                  \o call.clips[1].sec_audio_streams
                                  \o call.clips[1].pg_streams
                IN /\ st.id = call.ids[i]
                   /\ st.tagged <=> \E k \in 1..Len(descs) : descs[k].pid = st.id
                   /\ \A k \in 1..Len(descs) :
                        (descs[k].pid = st.id
                         /\ \A j \in 1..(k - 1) : descs[j].pid # st.id)
                            => st.language = descs[k].lang

\* Two descriptors of clip 0 share the pid of a stream with different
\* languages, a later clip has that pid and the pid of the other stream, which
\* clip 0 has not.
C21_Witness ==
    /\ call.fn = "bluray_read_header"
    /\ Len(call.clips) = 2
    /\ call.clips[1].audio_streams = <<[pid |-> 1, lang |-> "eng"]>>
    /\ call.clips[1].pg_streams = <<[pid |-> 1, lang |-> "fra"]>>
    /\ call.clips[2].pg_streams # <<>>
    /\ call.ids = <<1, 3>>
    /\ result.streams[1].tagged /\ result.streams[1].language = "eng"
    /\ ~result.streams[2].tagged

\* C22: with no explicit title, the title index open goes on to use was
\* assigned during the scan and is an index of the title table; when the scan
\* assigns none, open fails without using an index.
C22_AutoSelectAssigned ==
    (opt.title < 0 /\ op = "open" /\ chosen # <<>>)
        => IF proto = "dvd"
           THEN /\ chosen[1] \in 0..(Len(disc.title) - 1)
                /\ \E i \in 1..Len(measured) : measured[i].title_nr = chosen[1]
           ELSE /\ chosen[1] \in 0..(Len(disc.titles) - 1)
                /\ \/ disc.main_title >= 0
                   \/ disc.titles[chosen[1] + 1] > 0

\* C23: after a successful DVD open with a valid angle, current_cell is an
\* index of the current chain's cell table in every state, states after a read
\* that returned EOF included, and no read takes the stream from such a state
\* to an access of the table outside it.
C23_CellInChain ==
    /\ [](( proto = "dvd" /\ pc = "open" /\ ~logged /\ ~ub)
            => ctx.current_cell \in 0..(ctx.current_pgc.nr_of_cells - 1))
    /\ [][(proto = "dvd" /\ pc = "open" /\ ~logged /\ ~ub /\ op' = "read")
          => ~ub']_vars

\* C24: when a Blu-ray open has reached its common cleanup, on success or on
\* a failure after the title was selected, the lookup array it freed was
\* allocated earlier in that open or is null, never unassigned, and the title
\* info was freed once and is held no longer.
C24_CleanupFreesAssigned ==
    (proto = "bluray" /\ op = "open" /\ pc \in {"open", "failed"}
     /\ (pc = "open" \/ info_freed > 0))
        => /\ bd_streams \in {"allocated", "null"}
           /\ info_freed = 1
           /\ "info" \notin held

====
